---------------------------- MODULE Spec2Model ----------------------------
(* systemd-dissect (src/dissect/dissect.c): parse_argv() and run() as a   *)
(* state machine.  pc is the position inside run(); the lease variables   *)
(* record what has happened to the loop device, the decryption mapping,   *)
(* the temporary mount directory and the mount.                           *)
EXTENDS Integers, Sequences, FiniteSets, TLC

VARIABLES
    pc,                     \* position in run()
    nopts,                  \* options consumed so far by the getopt_long() loop
    parse_r,                \* history: the value parse_argv() returned, "none" before
    given,                  \* history: -r seen, and the forms of --root-hash-sig in order
    r,                      \* the local "int r" of run() / parse_argv()
    ret,                    \* value returned by run(), "none" while running
    arg_action, arg_flags, arg_path, arg_source, arg_target,
    arg_root_hash, arg_root_hash_size, arg_verity_data,
    arg_root_hash_sig_path, arg_root_hash_sig, arg_root_hash_sig_size,
    lease,                  \* kernel-side state of each resource
    d, di,                  \* LoopDevice *d, DecryptedImage *di  (NULL or set)
    temp, created_dir, mounted_dir, \* the three strings of the copy scope
    open_mode,              \* open flags handed to loop_device_make_by_path()
    image_l,                \* what the entry "l" of the image's root directory is
    source_fd, target_fd, dfd,      \* handles of the transfer scope
    host_target,            \* what arg_target is on the host before an extract
    dircopy,                \* history: what copy_directory_fd() returned, or "none"
    written,                \* history: destinations that bytes were written to
    attrs,                  \* history: attributes propagated to target_fd
    created,                \* history: files and directories the transfer created
    acquired,               \* history: resources in order of acquisition
    torn,                   \* history: resources in order of teardown
    failed_step,            \* history: the step of run() that failed, or "none"
    short_hash_rejected     \* history: a root hash below 128 bit was rejected

vars == << pc, nopts, parse_r, given, r, ret, arg_action, arg_flags, arg_path, arg_source, arg_target,
           arg_root_hash, arg_root_hash_size, arg_verity_data,
           arg_root_hash_sig_path, arg_root_hash_sig, arg_root_hash_sig_size,
           lease, d, di, temp, created_dir, mounted_dir, open_mode, image_l,
           source_fd, target_fd, dfd, host_target, dircopy, written, attrs, created,
           acquired, torn, failed_step, short_hash_rejected >>

argvars == << arg_action, arg_flags, arg_path, arg_source, arg_target,
              arg_root_hash, arg_root_hash_size, arg_verity_data,
              arg_root_hash_sig_path, arg_root_hash_sig, arg_root_hash_sig_size >>

parsevars == << nopts, parse_r, given >>

fdvars == << source_fd, target_fd, dfd >>

xfervars == << host_target, dircopy, written, attrs, created >>

scopevars == << temp, created_dir, mounted_dir >>

histvars == << acquired, torn, failed_step, short_hash_rejected >>

-----------------------------------------------------------------------------
(* Bounds *)

MaxOpts == 2            \* options given on the command line
MaxPos == 4             \* positional arguments given on the command line
MaxHexLen == 32         \* longest --root-hash argument, in hex characters
MaxMetaHash == 16       \* longest root hash found in the image's metadata, in bytes
MaxHops == 3            \* symlinks followed in one path resolution

(* sizeof(sd_id128_t) *)
SD_ID128_SIZE == 16

-----------------------------------------------------------------------------
(* Return values: "1", "0" and negative errno values. *)

IsNeg(x) == x \notin {"0", "1", "none"}

(* Strings that are paths: NULL, or absolute/relative with components. *)
Path(abs, comps) == [null |-> FALSE, abs |-> abs, comps |-> comps]
NULLPATH == [null |-> TRUE, abs |-> FALSE, comps |-> << >>]
DASH == Path(FALSE, << "-" >>)

Resources == {"loop", "decrypt", "tmpdir", "mount"}
NOFD == [open |-> FALSE, loc |-> << >>, image |-> FALSE, kind |-> "none"]
Fd(loc, image, kind) == [open |-> TRUE, loc |-> loc, image |-> image, kind |-> kind]

Init ==
    /\ pc = "getopt"
    /\ nopts = 0
    /\ parse_r = "none"
    /\ given = [read_only |-> FALSE, sigs |-> << >>]
    /\ r = "none"
    /\ ret = "none"
    /\ arg_action = "ACTION_DISSECT"
    /\ arg_flags = {"REQUIRE_ROOT", "DISCARD_ON_LOOP", "RELAX_VAR_CHECK", "FSCK"}
    /\ arg_path = NULLPATH
    /\ arg_source = NULLPATH
    /\ arg_target = NULLPATH
    /\ arg_root_hash = "NULL"
    /\ arg_root_hash_size = 0
    /\ arg_verity_data = "NULL"
    /\ arg_root_hash_sig_path = "NULL"
    /\ arg_root_hash_sig = "NULL"
    /\ arg_root_hash_sig_size = 0
    /\ lease = [x \in Resources |-> "none"]
    /\ d = "NULL"
    /\ di = "NULL"
    /\ temp = "NULL"
    /\ created_dir = "NULL"
    /\ mounted_dir = "NULL"
    /\ open_mode = "none"
    /\ image_l = "unknown"
    /\ source_fd = NOFD
    /\ target_fd = NOFD
    /\ dfd = NOFD
    /\ host_target = "unknown"
    /\ dircopy = "none"
    /\ written = {}
    /\ attrs = {}
    /\ created = {}
    /\ acquired = << >>
    /\ torn = << >>
    /\ failed_step = "none"
    /\ short_hash_rejected = FALSE

-----------------------------------------------------------------------------
(* parse_argv(): the getopt_long() loop, one option per step. *)

DISCARD_ANY == {"DISCARD_ON_LOOP", "DISCARD", "DISCARD_ON_CRYPTO"}

(* unhexmem(): -EINVAL on an odd length or a non-hex character, else l/2 bytes *)
HexArgs == [len : {0} \cup ((2 * SD_ID128_SIZE - 3) .. MaxHexLen), hex : BOOLEAN]
unhexmem(a) ==
    IF a.len % 2 # 0 \/ ~a.hex THEN [r |-> "-EINVAL", l |-> 0]
    ELSE [r |-> "0", l |-> a.len \div 2]

(* return from parse_argv() to run() with value x *)
ParseReturn(x) ==
    /\ r' = x
    /\ parse_r' = x
    /\ pc' = "parsed"

ParseContinue ==
    /\ nopts' = nopts + 1
    /\ UNCHANGED << pc, r, parse_r >>

Opt_h ==
    /\ \E x \in {"0", "-ENOMEM"} : ParseReturn(x)
    /\ UNCHANGED << nopts, argvars, short_hash_rejected >>
    /\ UNCHANGED given

Opt_version ==
    /\ ParseReturn("0")
    /\ UNCHANGED << nopts, argvars, short_hash_rejected >>
    /\ UNCHANGED given

Opt_m ==
    /\ arg_action' = "ACTION_MOUNT"
    /\ ParseContinue
    /\ UNCHANGED << arg_flags, arg_path, arg_source, arg_target,
                    arg_root_hash, arg_root_hash_size, arg_verity_data,
                    arg_root_hash_sig_path, arg_root_hash_sig, arg_root_hash_sig_size,
                    short_hash_rejected >>
    /\ UNCHANGED given

Opt_mkdir ==
    /\ arg_flags' = arg_flags \cup {"MKDIR"}
    /\ ParseContinue
    /\ UNCHANGED << arg_action, arg_path, arg_source, arg_target,
                    arg_root_hash, arg_root_hash_size, arg_verity_data,
                    arg_root_hash_sig_path, arg_root_hash_sig, arg_root_hash_sig_size,
                    short_hash_rejected >>
    /\ UNCHANGED given

Opt_M ==
    /\ arg_action' = "ACTION_MOUNT"
    /\ arg_flags' = arg_flags \cup {"MKDIR"}
    /\ ParseContinue
    /\ UNCHANGED << arg_path, arg_source, arg_target,
                    arg_root_hash, arg_root_hash_size, arg_verity_data,
                    arg_root_hash_sig_path, arg_root_hash_sig, arg_root_hash_sig_size,
                    short_hash_rejected >>
    /\ UNCHANGED given

Opt_x ==
    /\ arg_action' = "ACTION_COPY_FROM"
    /\ arg_flags' = arg_flags \cup {"READ_ONLY"}
    /\ ParseContinue
    /\ UNCHANGED << arg_path, arg_source, arg_target,
                    arg_root_hash, arg_root_hash_size, arg_verity_data,
                    arg_root_hash_sig_path, arg_root_hash_sig, arg_root_hash_sig_size,
                    short_hash_rejected >>
    /\ UNCHANGED given

Opt_a ==
    /\ arg_action' = "ACTION_COPY_TO"
    /\ ParseContinue
    /\ UNCHANGED << arg_flags, arg_path, arg_source, arg_target,
                    arg_root_hash, arg_root_hash_size, arg_verity_data,
                    arg_root_hash_sig_path, arg_root_hash_sig, arg_root_hash_sig_size,
                    short_hash_rejected >>
    /\ UNCHANGED given

Opt_r ==
    /\ arg_flags' = arg_flags \cup {"READ_ONLY"}
    /\ given' = [given EXCEPT !.read_only = TRUE]
    /\ ParseContinue
    /\ UNCHANGED << arg_action, arg_path, arg_source, arg_target,
                    arg_root_hash, arg_root_hash_size, arg_verity_data,
                    arg_root_hash_sig_path, arg_root_hash_sig, arg_root_hash_sig_size,
                    short_hash_rejected >>

DiscardFlags(optarg) ==
    CASE optarg = "disabled" -> {}
      [] optarg = "loop" -> {"DISCARD_ON_LOOP"}
      [] optarg = "all" -> {"DISCARD_ON_LOOP", "DISCARD"}
      [] optarg = "crypt" -> DISCARD_ANY

Opt_discard ==
    \E optarg \in {"disabled", "loop", "all", "crypt", "list", "bogus"} :
        /\ IF optarg \in {"disabled", "loop", "all", "crypt"}
           THEN /\ arg_flags' = (arg_flags \ DISCARD_ANY) \cup DiscardFlags(optarg)
                /\ ParseContinue
           ELSE /\ ParseReturn(IF optarg = "list" THEN "0" ELSE "-EINVAL")
                /\ UNCHANGED << nopts, arg_flags >>
        /\ UNCHANGED << arg_action, arg_path, arg_source, arg_target,
                        arg_root_hash, arg_root_hash_size, arg_verity_data,
                        arg_root_hash_sig_path, arg_root_hash_sig, arg_root_hash_sig_size,
                        short_hash_rejected >>
        /\ UNCHANGED given

Opt_root_hash ==
    \E optarg \in HexArgs :
        LET u == unhexmem(optarg) IN
        /\ IF IsNeg(u.r)
           THEN /\ ParseReturn(u.r)
                /\ UNCHANGED << nopts, arg_root_hash, arg_root_hash_size, short_hash_rejected >>
           ELSE IF u.l < SD_ID128_SIZE
           THEN /\ ParseReturn("-EINVAL")
                /\ short_hash_rejected' = TRUE
                /\ UNCHANGED << nopts, arg_root_hash, arg_root_hash_size >>
           ELSE /\ arg_root_hash' = "arg"
                /\ arg_root_hash_size' = u.l
                /\ ParseContinue
                /\ UNCHANGED short_hash_rejected
        /\ UNCHANGED << arg_action, arg_flags, arg_path, arg_source, arg_target,
                        arg_verity_data,
                        arg_root_hash_sig_path, arg_root_hash_sig, arg_root_hash_sig_size >>
        /\ UNCHANGED given

Opt_verity_data ==
    \E ok \in BOOLEAN :
        /\ IF ok
           THEN /\ arg_verity_data' = "arg"
                /\ ParseContinue
           ELSE /\ ParseReturn("-EINVAL")
                /\ UNCHANGED << nopts, arg_verity_data >>
        /\ UNCHANGED << arg_action, arg_flags, arg_path, arg_source, arg_target,
                        arg_root_hash, arg_root_hash_size,
                        arg_root_hash_sig_path, arg_root_hash_sig, arg_root_hash_sig_size,
                        short_hash_rejected >>
        /\ UNCHANGED given

(* optarg: "base64:"-prefixed (decodable to l bytes, or not) or a path (usable or not) *)
SigArgs == {[base64 |-> TRUE, ok |-> TRUE, l |-> 1], [base64 |-> TRUE, ok |-> TRUE, l |-> 0],
            [base64 |-> TRUE, ok |-> FALSE, l |-> 0],
            [base64 |-> FALSE, ok |-> TRUE, l |-> 0], [base64 |-> FALSE, ok |-> FALSE, l |-> 0]}

(* variant: the option sets its form and leaves the other form as it was *)
Opt_root_hash_sig_keeps_other ==
    \E optarg \in SigArgs :
        /\ IF ~optarg.ok
           THEN /\ ParseReturn("-EINVAL")
                /\ UNCHANGED << nopts, given, arg_root_hash_sig_path, arg_root_hash_sig,
                                arg_root_hash_sig_size >>
           ELSE IF optarg.base64
           THEN /\ arg_root_hash_sig' = "arg"
                /\ arg_root_hash_sig_size' = optarg.l
                /\ given' = [given EXCEPT !.sigs = Append(@, "base64")]
                /\ ParseContinue
                /\ UNCHANGED arg_root_hash_sig_path
           ELSE /\ arg_root_hash_sig_path' = "arg"
                /\ given' = [given EXCEPT !.sigs = Append(@, "path")]
                /\ ParseContinue
                /\ UNCHANGED << arg_root_hash_sig, arg_root_hash_sig_size >>
        /\ UNCHANGED << arg_action, arg_flags, arg_path, arg_source, arg_target,
                        arg_root_hash, arg_root_hash_size, arg_verity_data,
                        short_hash_rejected >>

Opt_root_hash_sig ==
    \E optarg \in SigArgs :
        /\ IF ~optarg.ok
           THEN /\ ParseReturn("-EINVAL")
                /\ UNCHANGED << nopts, given, arg_root_hash_sig_path, arg_root_hash_sig,
                                arg_root_hash_sig_size >>
           ELSE IF optarg.base64
           THEN /\ arg_root_hash_sig' = "arg"
                /\ arg_root_hash_sig_size' = optarg.l
                /\ arg_root_hash_sig_path' = "NULL"
                /\ given' = [given EXCEPT !.sigs = Append(@, "base64")]
                /\ ParseContinue
           ELSE /\ arg_root_hash_sig_path' = "arg"
                /\ arg_root_hash_sig' = "NULL"
                /\ arg_root_hash_sig_size' = 0
                /\ given' = [given EXCEPT !.sigs = Append(@, "path")]
                /\ ParseContinue
        /\ UNCHANGED << arg_action, arg_flags, arg_path, arg_source, arg_target,
                        arg_root_hash, arg_root_hash_size, arg_verity_data,
                        short_hash_rejected >>

Opt_fsck ==
    \E optarg \in {"yes", "no", "bogus"} :
        /\ IF optarg = "bogus"
           THEN /\ ParseReturn("-EINVAL")
                /\ UNCHANGED << nopts, arg_flags >>
           ELSE /\ arg_flags' = IF optarg = "yes" THEN arg_flags \cup {"FSCK"}
                                                  ELSE arg_flags \ {"FSCK"}
                /\ ParseContinue
        /\ UNCHANGED << arg_action, arg_path, arg_source, arg_target,
                        arg_root_hash, arg_root_hash_size, arg_verity_data,
                        arg_root_hash_sig_path, arg_root_hash_sig, arg_root_hash_sig_size,
                        short_hash_rejected >>
        /\ UNCHANGED given

Opt_unknown ==
    /\ ParseReturn("-EINVAL")
    /\ UNCHANGED << nopts, argvars, short_hash_rejected >>
    /\ UNCHANGED given

ParseOption ==
    /\ pc = "getopt"
    /\ nopts < MaxOpts
    /\ \/ Opt_h \/ Opt_version \/ Opt_m \/ Opt_mkdir \/ Opt_M \/ Opt_x \/ Opt_a \/ Opt_r
       \/ Opt_discard \/ Opt_root_hash \/ Opt_verity_data \/ Opt_root_hash_sig
       \/ Opt_fsck \/ Opt_unknown
    /\ UNCHANGED << ret, lease, d, di, scopevars, open_mode, image_l, fdvars, xfervars,
                    acquired, torn, failed_step >>


-----------------------------------------------------------------------------
(* parse_argv(): the switch on arg_action after the option loop. *)

(* The paths the command line may name. *)
MountPoint == Path(TRUE, << "mnt" >>)
HostTarget == Path(FALSE, << "out" >>)
HostSource == Path(FALSE, << "src" >>)
ImagePaths == { Path(TRUE, << "d" >>), Path(TRUE, << "l" >>), Path(TRUE, << "d", "n" >>),
                Path(TRUE, << "l", "n" >>), Path(TRUE, << "d", ".." >>),
                Path(FALSE, << ".." >>), Path(TRUE, << >>) }

Positional ==
    /\ pc = "getopt"
    /\ \E npos \in 0 .. MaxPos :
        CASE arg_action = "ACTION_DISSECT" ->
                IF npos # 1
                THEN /\ ParseReturn("-EINVAL")
                     /\ UNCHANGED argvars
                ELSE /\ arg_flags' = arg_flags \cup {"READ_ONLY"}
                     /\ ParseReturn("1")
                     /\ UNCHANGED << arg_action, arg_path, arg_source, arg_target,
                                     arg_root_hash, arg_root_hash_size, arg_verity_data,
                                     arg_root_hash_sig_path, arg_root_hash_sig,
                                     arg_root_hash_sig_size >>
          [] arg_action = "ACTION_MOUNT" ->
                IF npos # 2
                THEN /\ ParseReturn("-EINVAL")
                     /\ UNCHANGED argvars
                ELSE /\ arg_path' = MountPoint
                     /\ ParseReturn("1")
                     /\ UNCHANGED << arg_action, arg_flags, arg_source, arg_target,
                                     arg_root_hash, arg_root_hash_size, arg_verity_data,
                                     arg_root_hash_sig_path, arg_root_hash_sig,
                                     arg_root_hash_sig_size >>
          [] arg_action = "ACTION_COPY_FROM" ->
                IF npos < 2 \/ npos > 3
                THEN /\ ParseReturn("-EINVAL")
                     /\ UNCHANGED argvars
                ELSE /\ arg_source' \in ImagePaths
                     /\ IF npos > 2 THEN arg_target' \in {HostTarget, DASH}
                                    ELSE arg_target' = DASH
                     /\ arg_flags' = arg_flags \cup {"READ_ONLY"}
                     /\ ParseReturn("1")
                     /\ UNCHANGED << arg_action, arg_path,
                                     arg_root_hash, arg_root_hash_size, arg_verity_data,
                                     arg_root_hash_sig_path, arg_root_hash_sig,
                                     arg_root_hash_sig_size >>
          [] arg_action = "ACTION_COPY_TO" ->
                IF npos < 2 \/ npos > 3
                THEN /\ ParseReturn("-EINVAL")
                     /\ UNCHANGED argvars
                ELSE /\ IF npos > 2 THEN arg_source' \in {HostSource, DASH}
                                    ELSE arg_source' = DASH
                     /\ arg_target' \in ImagePaths
                     /\ ParseReturn("1")
                     /\ UNCHANGED << arg_action, arg_flags, arg_path,
                                     arg_root_hash, arg_root_hash_size, arg_verity_data,
                                     arg_root_hash_sig_path, arg_root_hash_sig,
                                     arg_root_hash_sig_size >>
    /\ UNCHANGED << nopts, given, ret, lease, d, di, scopevars, open_mode, image_l, fdvars,
                    xfervars, histvars >>

-----------------------------------------------------------------------------
(* The file system the transfer sees: the host's directories, and the image *)
(* mounted on the temporary directory.  Locations are component sequences  *)
(* from the host's root directory.                                         *)

MountRoot == << "tmp", "mnt" >>

IsPrefix(p, s) == Len(p) <= Len(s) /\ SubSeq(s, 1, Len(p)) = p
Front(s) == SubSeq(s, 1, Len(s) - 1)
Last(s) == s[Len(s)]

Node(kind) == [kind |-> kind, target |-> NULLPATH]
Symlink(target) == [kind |-> "symlink", target |-> target]

(* what the image's root entry "l" may be *)
ImageLKinds == {"absent", "file", "dir", "dev", "link_abs_etc", "link_abs_d", "link_rel_up"}

ImageNode(rel) ==
    CASE rel = << >> -> Node("dir")
      [] rel = << "d" >> -> Node("dir")
      [] rel = << "l" >> ->
            CASE image_l \in {"file", "dir", "dev"} -> Node(image_l)
              [] image_l = "link_abs_etc" -> Symlink(Path(TRUE, << "etc" >>))
              [] image_l = "link_abs_d" -> Symlink(Path(TRUE, << "d" >>))
              [] image_l = "link_rel_up" -> Symlink(Path(FALSE, << ".." >>))
              [] OTHER -> Node("absent")
      [] OTHER -> Node("absent")

HostNode(loc) ==
    IF loc \in { << >>, << "etc" >>, << "tmp" >> } THEN Node("dir") ELSE Node("absent")

NodeAt(loc) ==
    IF IsPrefix(MountRoot, loc)
    THEN ImageNode(SubSeq(loc, Len(MountRoot) + 1, Len(loc)))
    ELSE HostNode(loc)

(* Path walk of the kernel from directory cur: symlinks with an absolute *)
(* target restart at the root directory of the process.                  *)
RECURSIVE KernelWalk(_, _, _)
KernelWalk(cur, comps, hops) ==
    IF comps = << >> THEN [err |-> "0", loc |-> cur]
    ELSE LET c == Head(comps)
             rest == Tail(comps)
             n == NodeAt(cur \o << c >>)
         IN  IF c = ".."
             THEN KernelWalk(IF cur = << >> THEN << >> ELSE Front(cur), rest, hops)
             ELSE CASE n.kind = "absent" -> [err |-> "-ENOENT", loc |-> << >>]
                    [] n.kind = "symlink" ->
                         IF hops = 0 THEN [err |-> "-ELOOP", loc |-> << >>]
                         ELSE KernelWalk(IF n.target.abs THEN << >> ELSE cur,
                                         n.target.comps \o rest, hops - 1)
                    [] n.kind = "dir" -> KernelWalk(cur \o << c >>, rest, hops)
                    [] OTHER -> IF rest = << >> THEN [err |-> "0", loc |-> cur \o << c >>]
                                ELSE [err |-> "-ENOTDIR", loc |-> << >>]

(* openat(dirfd, name, flags) for a single-component name *)
openat(dir, name, flags) ==
    LET fail(e) == [err |-> e, loc |-> << >>, kind |-> "none"]
        n == NodeAt(dir \o << name >>)
        w == KernelWalk(IF n.target.abs THEN << >> ELSE dir, n.target.comps, MaxHops)
    IN  IF name = "" THEN fail("-ENOENT")
        ELSE IF NodeAt(dir).kind # "dir" THEN fail("-ENOTDIR")
        ELSE IF name = ".."
        THEN IF "O_CREAT" \in flags THEN fail("-EEXIST")
             ELSE IF "O_WRONLY" \in flags THEN fail("-EISDIR")
             ELSE [err |-> "0", loc |-> IF dir = << >> THEN << >> ELSE Front(dir),
                   kind |-> "dir"]
        ELSE CASE n.kind = "absent" ->
                    IF "O_CREAT" \in flags
                    THEN [err |-> "0", loc |-> dir \o << name >>, kind |-> "file"]
                    ELSE fail("-ENOENT")
               [] n.kind # "absent" /\ {"O_CREAT", "O_EXCL"} \subseteq flags ->
                    fail("-EEXIST")
               [] n.kind = "symlink" /\ ~({"O_CREAT", "O_EXCL"} \subseteq flags) ->
                    IF "O_NOFOLLOW" \in flags THEN fail("-ELOOP")
                    ELSE IF IsNeg(w.err) THEN fail(w.err)
                    ELSE IF "O_DIRECTORY" \in flags /\ NodeAt(w.loc).kind # "dir"
                    THEN fail("-ENOTDIR")
                    ELSE [err |-> "0", loc |-> w.loc, kind |-> NodeAt(w.loc).kind]
               [] OTHER ->
                    IF "O_DIRECTORY" \in flags /\ n.kind # "dir" THEN fail("-ENOTDIR")
                    ELSE IF "O_WRONLY" \in flags /\ n.kind = "dir" THEN fail("-EISDIR")
                    ELSE [err |-> "0", loc |-> dir \o << name >>, kind |-> n.kind]

(* dirname_malloc() and basename() on a path string *)
dirname_malloc(p) ==
    IF Len(p.comps) <= 1 THEN Path(p.abs, << >>) ELSE Path(p.abs, Front(p.comps))

basename(p) == IF p.comps = << >> THEN "" ELSE Last(p.comps)

(* chase_symlinks(path, root, CHASE_PREFIX_ROOT): the walk confined to root. *)
(* cur is the position below root; a symlink restarts at root when its      *)
(* target is absolute, and ".." at root is refused.                         *)
RECURSIVE chase_symlinks(_, _, _, _)
chase_symlinks(root, cur, comps, hops) ==
    IF comps = << >> THEN [err |-> "0", loc |-> root \o cur]
    ELSE LET c == Head(comps)
             rest == Tail(comps)
             n == NodeAt(root \o cur \o << c >>)
         IN  IF c = ".."
             THEN IF cur = << >> THEN [err |-> "-EPERM", loc |-> << >>]
                  ELSE chase_symlinks(root, Front(cur), rest, hops)
             ELSE CASE n.kind = "absent" -> [err |-> "-ENOENT", loc |-> << >>]
                    [] n.kind = "symlink" ->
                         IF hops = 0 THEN [err |-> "-ELOOP", loc |-> << >>]
                         ELSE chase_symlinks(root, IF n.target.abs THEN << >> ELSE cur,
                                             n.target.comps \o rest, hops - 1)
                    [] n.kind = "dir" -> chase_symlinks(root, cur \o << c >>, rest, hops)
                    [] OTHER -> IF rest = << >>
                                THEN [err |-> "0", loc |-> root \o cur \o << c >>]
                                ELSE [err |-> "-ENOTDIR", loc |-> << >>]

-----------------------------------------------------------------------------
(* run(): leaving a scope.  A return runs the _cleanup_ handlers of every   *)
(* open scope, innermost scope first, each scope in reverse declaration     *)
(* order; the handlers are the steps cl_*.                                  *)

ReturnTo(x, handler) ==
    /\ ret' = x
    /\ pc' = handler

RunScope == "cl_di"                 \* only d, di and m are in scope
CopyScope == "cl_created_dir"       \* inside the block of the two copy actions
TransferScope == "cl_fds"           \* inside the block that declares the handles

ReturnFromRun(x) == ReturnTo(x, RunScope)

ReturnFromCopy(x) == ReturnTo(x, CopyScope)

ReturnFromTransfer(x) == ReturnTo(x, TransferScope)

Fails(step) == failed_step' = step

Acquire(res) ==
    /\ lease' = [lease EXCEPT ![res] = "live"]
    /\ acquired' = Append(acquired, res)

(* variant: "if (r < 0) return r;" *)
Run_parse_argv_lt ==
    /\ pc = "parsed"
    /\ IF IsNeg(r)
       THEN ReturnFromRun(r)
       ELSE /\ pc' = "loop_make"
            /\ UNCHANGED ret
    /\ UNCHANGED << parsevars, r, argvars, lease, d, di, scopevars, open_mode, image_l,
                    fdvars, xfervars, histvars >>

(* if (r <= 0) return r; *)
Run_parse_argv ==
    /\ pc = "parsed"
    /\ IF r = "0" \/ IsNeg(r)
       THEN ReturnFromRun(r)
       ELSE /\ pc' = "loop_make"
            /\ UNCHANGED ret
    /\ UNCHANGED << parsevars, r, argvars, lease, d, di, scopevars, open_mode, image_l,
                    fdvars, xfervars, histvars >>

(* variant: the loop device is opened O_RDWR whatever the flags say *)
Run_loop_device_make_rdwr ==
    /\ pc = "loop_make"
    /\ open_mode' = "O_RDWR"
    /\ \/ /\ r' = "0"
          /\ d' = "set"
          /\ Acquire("loop")
          /\ pc' = "verity_load"
          /\ UNCHANGED << ret, failed_step >>
       \/ /\ r' = "-ENOENT"
          /\ Fails("loop")
          /\ ReturnFromRun("-ENOENT")
          /\ UNCHANGED << d, lease, acquired >>
    /\ UNCHANGED << parsevars, argvars, di, scopevars, image_l, fdvars, xfervars, torn,
                    short_hash_rejected >>

(* r = loop_device_make_by_path(arg_image,                                 *)
(*         (arg_flags & DISSECT_IMAGE_READ_ONLY) ? O_RDONLY : O_RDWR, ...) *)
Run_loop_device_make ==
    /\ pc = "loop_make"
    /\ open_mode' = IF "READ_ONLY" \in arg_flags THEN "O_RDONLY" ELSE "O_RDWR"
    /\ \/ /\ r' = "0"
          /\ d' = "set"
          /\ Acquire("loop")
          /\ pc' = "verity_load"
          /\ UNCHANGED << ret, failed_step >>
       \/ /\ r' = "-ENOENT"
          /\ Fails("loop")
          /\ ReturnFromRun("-ENOENT")
          /\ UNCHANGED << d, lease, acquired >>
    /\ UNCHANGED << parsevars, argvars, di, scopevars, image_l, fdvars, xfervars, torn,
                    short_hash_rejected >>

(* verity_metadata_load(): what it may report, given which fields it was   *)
(* asked to fill in.  hash_size = 0: no root hash found in the metadata.   *)
verity_metadata_load(want_hash, want_data, want_sig) ==
    {[r |-> "-EIO", hash_size |-> 0, data |-> FALSE, sig |-> FALSE]} \cup
    {[r |-> IF h # 0 /\ h < SD_ID128_SIZE THEN "-EINVAL" ELSE "0",
      hash_size |-> h, data |-> dt, sig |-> sg] :
        h \in (IF want_hash THEN {0} \cup ((SD_ID128_SIZE - 1) .. MaxMetaHash) ELSE {0}),
        dt \in (IF want_data THEN BOOLEAN ELSE {FALSE}),
        sg \in (IF want_sig THEN BOOLEAN ELSE {FALSE})}

(* variant: &arg_root_hash is handed over even when --root-hash gave one *)
Run_verity_metadata_load_always ==
    /\ pc = "verity_load"
    /\ \E o \in verity_metadata_load(TRUE, arg_verity_data = "NULL",
                                     ~(arg_root_hash_sig_path # "NULL" \/ arg_root_hash_sig # "NULL")) :
        /\ r' = o.r
        /\ IF IsNeg(o.r)
           THEN /\ Fails("verity")
                /\ short_hash_rejected' = (short_hash_rejected \/ o.r = "-EINVAL")
                /\ ReturnFromRun(o.r)
                /\ UNCHANGED argvars
           ELSE /\ arg_root_hash' = IF o.hash_size # 0 THEN "meta" ELSE arg_root_hash
                /\ arg_root_hash_size' = IF o.hash_size # 0 THEN o.hash_size
                                         ELSE arg_root_hash_size
                /\ arg_verity_data' = IF o.data THEN "meta" ELSE arg_verity_data
                /\ arg_root_hash_sig_path' = IF o.sig THEN "meta" ELSE arg_root_hash_sig_path
                /\ arg_flags' = IF arg_verity_data' # "NULL"
                                THEN arg_flags \cup {"NO_PARTITION_TABLE"} ELSE arg_flags
                /\ pc' = "dissect"
                /\ UNCHANGED << ret, failed_step, short_hash_rejected, arg_action, arg_path,
                                arg_source, arg_target, arg_root_hash_sig,
                                arg_root_hash_sig_size >>
    /\ UNCHANGED << parsevars, lease, d, di, scopevars, open_mode, image_l, fdvars, xfervars,
                    acquired, torn >>

(* r = verity_metadata_load(arg_image, NULL,                               *)
(*         arg_root_hash ? NULL : &arg_root_hash, &arg_root_hash_size,     *)
(*         arg_verity_data ? NULL : &arg_verity_data,                      *)
(*         arg_root_hash_sig_path || arg_root_hash_sig ? NULL : &arg_root_hash_sig_path); *)
(* arg_flags |= arg_verity_data ? DISSECT_IMAGE_NO_PARTITION_TABLE : 0;    *)
Run_verity_metadata_load ==
    /\ pc = "verity_load"
    /\ \E o \in verity_metadata_load(arg_root_hash = "NULL", arg_verity_data = "NULL",
                                     ~(arg_root_hash_sig_path # "NULL" \/ arg_root_hash_sig # "NULL")) :
        /\ r' = o.r
        /\ IF IsNeg(o.r)
           THEN /\ Fails("verity")
                /\ short_hash_rejected' = (short_hash_rejected \/ o.r = "-EINVAL")
                /\ ReturnFromRun(o.r)
                /\ UNCHANGED argvars
           ELSE /\ arg_root_hash' = IF o.hash_size # 0 THEN "meta" ELSE arg_root_hash
                /\ arg_root_hash_size' = IF o.hash_size # 0 THEN o.hash_size
                                         ELSE arg_root_hash_size
                /\ arg_verity_data' = IF o.data THEN "meta" ELSE arg_verity_data
                /\ arg_root_hash_sig_path' = IF o.sig THEN "meta" ELSE arg_root_hash_sig_path
                /\ arg_flags' = IF arg_verity_data' # "NULL"
                                THEN arg_flags \cup {"NO_PARTITION_TABLE"} ELSE arg_flags
                /\ pc' = "dissect"
                /\ UNCHANGED << ret, failed_step, short_hash_rejected, arg_action, arg_path,
                                arg_source, arg_target, arg_root_hash_sig,
                                arg_root_hash_sig_size >>
    /\ UNCHANGED << parsevars, lease, d, di, scopevars, open_mode, image_l, fdvars, xfervars,
                    acquired, torn >>

Run_dissect_image ==
    /\ pc = "dissect"
    /\ \/ /\ r' = "0"
          /\ pc' = CASE arg_action = "ACTION_DISSECT" -> "a_dissect"
                     [] arg_action = "ACTION_MOUNT" -> "m_decrypt"
                     [] OTHER -> "c_decrypt"
          /\ UNCHANGED << ret, failed_step >>
       \/ /\ r' = "-ENOPKG"
          /\ Fails("dissect")
          /\ ReturnFromRun("-ENOPKG")
    /\ UNCHANGED << parsevars, argvars, lease, d, di, scopevars, open_mode, image_l, fdvars, xfervars,
                    acquired, torn, short_hash_rejected >>

(* variant: the inspect action hands the loop device over as the mount action does *)
Action_dissect_relinquishes ==
    /\ pc = "a_dissect"
    /\ lease' = [lease EXCEPT !["loop"] = "relinquished"]
    /\ \/ /\ r' = "0"
          /\ ReturnFromRun("0")
          /\ UNCHANGED failed_step
       \/ /\ r' = "-EIO"
          /\ Fails("metadata")
          /\ ReturnFromRun("-EIO")
    /\ UNCHANGED << parsevars, argvars, d, di, scopevars, open_mode, image_l, fdvars, xfervars,
                    acquired, torn, short_hash_rejected >>

(* case ACTION_DISSECT *)
Action_dissect ==
    /\ pc = "a_dissect"
    /\ \/ /\ r' = "0"
          /\ ReturnFromRun("0")
          /\ UNCHANGED failed_step
       \/ /\ r' = "-EIO"
          /\ Fails("metadata")
          /\ ReturnFromRun("-EIO")
    /\ UNCHANGED << parsevars, argvars, lease, d, di, scopevars, open_mode, image_l, fdvars, xfervars,
                    acquired, torn, short_hash_rejected >>

(* variant: every failure of the handshake is returned as -EKEYREJECTED *)
Decrypt_folded(next, scope) ==
    /\ \/ /\ r' = "0"
          /\ pc' = next
          /\ UNCHANGED << ret, di, lease, acquired, failed_step >>
       \/ /\ r' = "0"
          /\ di' = "set"
          /\ Acquire("decrypt")
          /\ pc' = next
          /\ UNCHANGED << ret, failed_step >>
       \/ /\ \E e \in {"-EKEYREJECTED", "-ECANCELED"} :
                /\ r' = e
                /\ ReturnTo("-EKEYREJECTED", scope)
          /\ Fails("decrypt")
          /\ UNCHANGED << di, lease, acquired >>
    /\ UNCHANGED << parsevars, argvars, d, scopevars, open_mode, image_l, fdvars, xfervars, torn,
                    short_hash_rejected >>

(* dissected_image_decrypt_interactively(..., &di), as both call sites use it *)
Decrypt(next, scope) ==
    /\ \/ /\ r' = "0"              \* nothing to decrypt: di stays NULL
          /\ pc' = next
          /\ UNCHANGED << ret, di, lease, acquired, failed_step >>
       \/ /\ r' = "0"
          /\ di' = "set"
          /\ Acquire("decrypt")
          /\ pc' = next
          /\ UNCHANGED << ret, failed_step >>
       \/ /\ \E e \in {"-EKEYREJECTED", "-ECANCELED"} :
                /\ r' = e
                /\ ReturnTo(e, scope)
          /\ Fails("decrypt")
          /\ UNCHANGED << di, lease, acquired >>
    /\ UNCHANGED << parsevars, argvars, d, scopevars, open_mode, image_l, fdvars, xfervars, torn,
                    short_hash_rejected >>

(* case ACTION_MOUNT *)
Mount_decrypt ==
    /\ pc = "m_decrypt"
    /\ Decrypt("m_mount", RunScope)

(* dissected_image_mount(m, where, ...) *)
Mount_mount ==
    /\ pc = "m_mount"
    /\ \/ /\ r' = "0"
          /\ Acquire("mount")
          /\ pc' = "m_relinquish_di"
          /\ UNCHANGED << ret, failed_step >>
       \/ /\ \E e \in {"-EUCLEAN", "-EBUSY"} :
                /\ r' = e
                /\ ReturnFromRun(e)
          /\ Fails("mount")
          /\ UNCHANGED << lease, acquired >>
    /\ UNCHANGED << parsevars, argvars, d, di, scopevars, open_mode, image_l, fdvars, xfervars, torn,
                    short_hash_rejected >>

(* variant: a failure of decrypted_image_relinquish() is not returned *)
RelinquishDi_unchecked(next, scope) ==
    /\ IF di = "NULL"
       THEN /\ pc' = next
            /\ UNCHANGED << r, ret, lease, failed_step >>
       ELSE \/ /\ r' = "0"
               /\ lease' = [lease EXCEPT !["decrypt"] = "relinquished"]
               /\ pc' = next
               /\ UNCHANGED << ret, failed_step >>
            \/ /\ r' = "-EBUSY"
               /\ pc' = next
               /\ UNCHANGED << ret, lease, failed_step >>
    /\ UNCHANGED << parsevars, argvars, d, di, scopevars, open_mode, image_l, fdvars, xfervars,
                    acquired, torn, short_hash_rejected >>

(* if (di) { r = decrypted_image_relinquish(di); if (r < 0) return ...; } *)
RelinquishDi(next, scope) ==
    /\ IF di = "NULL"
       THEN /\ pc' = next
            /\ UNCHANGED << r, ret, lease, failed_step >>
       ELSE \/ /\ r' = "0"
               /\ lease' = [lease EXCEPT !["decrypt"] = "relinquished"]
               /\ pc' = next
               /\ UNCHANGED << ret, failed_step >>
            \/ /\ r' = "-EBUSY"
               /\ Fails("relinquish")
               /\ ReturnTo("-EBUSY", scope)
               /\ UNCHANGED lease
    /\ UNCHANGED << parsevars, argvars, d, di, scopevars, open_mode, image_l, fdvars, xfervars,
                    acquired, torn, short_hash_rejected >>

(* loop_device_relinquish(d) *)
RelinquishLoop(next) ==
    /\ lease' = [lease EXCEPT !["loop"] = "relinquished"]
    /\ pc' = next
    /\ UNCHANGED << parsevars, r, ret, argvars, d, di, scopevars, open_mode, image_l, fdvars, xfervars,
                    histvars >>

Mount_relinquish_di ==
    /\ pc = "m_relinquish_di"
    /\ RelinquishDi("m_relinquish_d", RunScope)

(* variant: break without loop_device_relinquish(d) *)
Mount_relinquish_d_missing ==
    /\ pc = "m_relinquish_d"
    /\ ReturnFromRun("0")
    /\ UNCHANGED << parsevars, r, argvars, lease, d, di, scopevars, open_mode, image_l,
                    fdvars, xfervars, histvars >>

(* loop_device_relinquish(d); break; ... return 0; *)
Mount_relinquish_d ==
    /\ pc = "m_relinquish_d"
    /\ lease' = [lease EXCEPT !["loop"] = "relinquished"]
    /\ ReturnFromRun("0")
    /\ UNCHANGED << parsevars, r, argvars, d, di, scopevars, open_mode, image_l, fdvars, xfervars,
                    histvars >>

-----------------------------------------------------------------------------
(* case ACTION_COPY_FROM / ACTION_COPY_TO: acquisition *)

Copy_decrypt ==
    /\ pc = "c_decrypt"
    /\ Decrypt("c_detach", CopyScope)

Copy_detach_mount_namespace ==
    /\ pc = "c_detach"
    /\ \/ /\ r' = "0"
          /\ pc' = "c_tempfn"
          /\ UNCHANGED << ret, failed_step >>
       \/ /\ r' = "-EPERM"
          /\ Fails("detach")
          /\ ReturnFromCopy("-EPERM")
    /\ UNCHANGED << parsevars, argvars, lease, d, di, scopevars, open_mode, image_l, fdvars, xfervars,
                    acquired, torn, short_hash_rejected >>

Copy_tempfn_random_child ==
    /\ pc = "c_tempfn"
    /\ \/ /\ r' = "0"
          /\ temp' = "set"
          /\ pc' = "c_mkdir"
          /\ UNCHANGED << ret, failed_step >>
       \/ /\ r' = "-ENOMEM"
          /\ Fails("tempfn")
          /\ ReturnFromCopy("-ENOMEM")
          /\ UNCHANGED temp
    /\ UNCHANGED << parsevars, argvars, lease, d, di, created_dir, mounted_dir, open_mode,
                    image_l, fdvars, xfervars, acquired, torn, short_hash_rejected >>

(* r = mkdir_p(temp, 0700); ...; created_dir = TAKE_PTR(temp); *)
Copy_mkdir_p ==
    /\ pc = "c_mkdir"
    /\ \/ /\ r' = "0"
          /\ Acquire("tmpdir")
          /\ created_dir' = temp
          /\ temp' = "NULL"
          /\ pc' = "c_mount"
          /\ UNCHANGED << ret, failed_step >>
       \/ /\ r' = "-EACCES"
          /\ Fails("mkdir")
          /\ ReturnFromCopy("-EACCES")
          /\ UNCHANGED << lease, acquired, temp, created_dir >>
    /\ UNCHANGED << parsevars, argvars, d, di, mounted_dir, open_mode, image_l, fdvars, xfervars,
                    torn, short_hash_rejected >>

(* variant: the mount succeeds but mounted_dir never takes over created_dir *)
Copy_mount_not_taken ==
    /\ pc = "c_mount"
    /\ \/ /\ r' = "0"
          /\ Acquire("mount")
          /\ image_l' \in ImageLKinds
          /\ pc' = "c_relinquish_di"
          /\ UNCHANGED << ret, failed_step, mounted_dir, created_dir >>
       \/ /\ \E e \in {"-EUCLEAN", "-EBUSY"} :
                /\ r' = e
                /\ ReturnFromCopy(e)
          /\ Fails("mount")
          /\ UNCHANGED << lease, acquired, mounted_dir, created_dir, image_l >>
    /\ UNCHANGED << parsevars, argvars, d, di, temp, open_mode, fdvars, xfervars, torn,
                    short_hash_rejected >>

(* r = dissected_image_mount(m, created_dir, ...); ...;                  *)
(* mounted_dir = TAKE_PTR(created_dir);  The image's content shows up.   *)
Copy_mount ==
    /\ pc = "c_mount"
    /\ \/ /\ r' = "0"
          /\ Acquire("mount")
          /\ mounted_dir' = created_dir
          /\ created_dir' = "NULL"
          /\ image_l' \in ImageLKinds
          /\ pc' = "c_relinquish_di"
          /\ UNCHANGED << ret, failed_step >>
       \/ /\ \E e \in {"-EUCLEAN", "-EBUSY"} :
                /\ r' = e
                /\ ReturnFromCopy(e)
          /\ Fails("mount")
          /\ UNCHANGED << lease, acquired, mounted_dir, created_dir, image_l >>
    /\ UNCHANGED << parsevars, argvars, d, di, temp, open_mode, fdvars, xfervars, torn,
                    short_hash_rejected >>

Copy_relinquish_di ==
    /\ pc = "c_relinquish_di"
    /\ RelinquishDi("c_relinquish_d", CopyScope)

Copy_relinquish_d ==
    /\ pc = "c_relinquish_d"
    /\ RelinquishLoop(IF arg_action = "ACTION_COPY_FROM" THEN "from_open" ELSE "to_chase")

-----------------------------------------------------------------------------
(* The transfer.  copy_bytes(), copy_directory_fd() and copy_tree_at()    *)
(* succeed or fail as the environment decides.                            *)

(* fd_verify_regular(fd) by the type of the open file *)
fd_verify_regular(fd) ==
    CASE fd.kind = "file" -> "0"
      [] fd.kind = "dir" -> "-EISDIR"
      [] OTHER -> "-EBADFD"

(* STDOUT_FILENO as a destination *)
STDOUT_FILENO == << "host", << "stdout" >> >>

(* where the bytes written through a handle land *)
Dest(fd) == << IF fd.image THEN "image" ELSE "host", fd.loc >>

(* what copy_xattr(), copy_access() and copy_times() carry over *)
PropagatedAttributes == {"xattr", "access", "times"}

(* copy_bytes(fdf, fdt, ...): what it reports and whether bytes reached   *)
(* fdt.  Reading a directory fails before anything is written.            *)
copy_bytes(kind) ==
    IF kind = "dir"
    THEN {[r |-> "-EISDIR", wrote |-> FALSE]}
    ELSE {[r |-> "0", wrote |-> TRUE], [r |-> "-EIO", wrote |-> TRUE],
          [r |-> "-EIO", wrote |-> FALSE]}

(* copy_directory_fd(dirfd, to, COPY_MERGE_EMPTY|...): -ENOTDIR before    *)
(* anything is touched when dirfd is no directory or "to" is a file; "to" *)
(* is created when absent and merged into when it is an empty directory.  *)
copy_directory_fd(fd, to) ==
    IF fd.kind # "dir"
    THEN {[r |-> "-ENOTDIR", made |-> FALSE, wrote |-> FALSE]}
    ELSE CASE to = "absent" -> {[r |-> "0", made |-> TRUE, wrote |-> TRUE],
                                [r |-> "-EIO", made |-> TRUE, wrote |-> TRUE],
                                [r |-> "-EACCES", made |-> FALSE, wrote |-> FALSE]}
           [] to = "dir" -> {[r |-> "0", made |-> FALSE, wrote |-> TRUE],
                             [r |-> "-EIO", made |-> FALSE, wrote |-> TRUE],
                             [r |-> "-EEXIST", made |-> FALSE, wrote |-> FALSE]}
           [] OTHER -> {[r |-> "-ENOTDIR", made |-> FALSE, wrote |-> FALSE]}

(* copy_tree_at(source_fd, ".", dir, name, ..., COPY_REPLACE|...) by what  *)
(* the entry "name" of dir is: the destination directory is created when  *)
(* absent and merged into when it is the open directory itself; with an   *)
(* empty name, or over an entry that is no directory, nothing is copied.  *)
copy_tree_at(entry) ==
    CASE entry = "absent" -> {[r |-> "0", made |-> TRUE, wrote |-> TRUE],
                              [r |-> "-EIO", made |-> TRUE, wrote |-> TRUE],
                              [r |-> "-EIO", made |-> FALSE, wrote |-> FALSE]}
      [] entry = "dir" -> {[r |-> "0", made |-> FALSE, wrote |-> TRUE],
                           [r |-> "-EIO", made |-> FALSE, wrote |-> TRUE],
                           [r |-> "-EIO", made |-> FALSE, wrote |-> FALSE]}
      [] entry = "noname" -> {[r |-> "-ENOENT", made |-> FALSE, wrote |-> FALSE]}
      [] OTHER -> {[r |-> "-EEXIST", made |-> FALSE, wrote |-> FALSE]}

TransferFrame ==
    UNCHANGED << parsevars, argvars, lease, d, di, scopevars, open_mode, image_l,
                 acquired, torn, short_hash_rejected >>

TransferFails(e) ==
    /\ r' = e
    /\ Fails("transfer")
    /\ ReturnFromTransfer(e)

TransferGoes(next) ==
    /\ pc' = next
    /\ UNCHANGED << ret, failed_step >>

(* source_fd = chase_symlinks_and_open(arg_source, mounted_dir, CHASE_PREFIX_ROOT, ...) *)
From_open_source ==
    /\ pc = "from_open"
    /\ LET c == chase_symlinks(MountRoot, << >>, arg_source.comps, MaxHops) IN
       IF IsNeg(c.err)
       THEN /\ TransferFails(c.err)
            /\ UNCHANGED fdvars
       ELSE /\ source_fd' = Fd(c.loc, TRUE, NodeAt(c.loc).kind)
            /\ r' = r
            /\ TransferGoes(IF arg_target = DASH THEN "from_stdout" ELSE "from_copy_directory")
            /\ UNCHANGED << target_fd, dfd >>
    /\ UNCHANGED xfervars
    /\ TransferFrame

(* variant: a failing attribute copy is returned as an error *)
StreamTo_attributes_fatal(kind, dest, propagate) ==
    /\ \E o \in copy_bytes(kind) :
        /\ written' = IF o.wrote THEN written \cup {dest} ELSE written
        /\ IF IsNeg(o.r)
           THEN /\ TransferFails(o.r)
                /\ UNCHANGED attrs
           ELSE \E done \in SUBSET propagate :
                /\ attrs' = attrs \cup done
                /\ IF done # propagate
                   THEN TransferFails("-EPERM")
                   ELSE /\ r' = o.r
                        /\ ReturnFromTransfer("0")
                        /\ UNCHANGED failed_step
    /\ UNCHANGED << fdvars, host_target, dircopy, created >>
    /\ TransferFrame

(* r = copy_bytes(fdf, fdt, ...); if (r < 0) return ...; then the         *)
(* attributes in "propagate", each (void) and so free to fail; break;     *)
StreamTo(kind, dest, propagate) ==
    /\ \E o \in copy_bytes(kind) :
        /\ written' = IF o.wrote THEN written \cup {dest} ELSE written
        /\ IF IsNeg(o.r)
           THEN /\ TransferFails(o.r)
                /\ UNCHANGED attrs
           ELSE /\ r' = o.r
                /\ ReturnFromTransfer("0")
                /\ \E done \in SUBSET propagate : attrs' = attrs \cup done
                /\ UNCHANGED failed_step
    /\ UNCHANGED << fdvars, host_target, dircopy, created >>
    /\ TransferFrame

(* copy_bytes(source_fd, STDOUT_FILENO, ...); break; *)
From_stdout ==
    /\ pc = "from_stdout"
    /\ StreamTo(source_fd.kind, STDOUT_FILENO, {})

(* variant: a source that is no directory goes on to the exclusive open   *)
(* without fd_verify_regular()                                            *)
From_copy_directory_unverified ==
    /\ pc = "from_copy_directory"
    /\ \E to \in {"absent", "file", "dir"} :
       \E o \in copy_directory_fd(source_fd, to) :
        /\ host_target' = to
        /\ dircopy' = o.r
        /\ created' = IF o.made THEN created \cup {<< "host", arg_target.comps >>} ELSE created
        /\ written' = IF o.wrote THEN written \cup {<< "host", arg_target.comps >>} ELSE written
        /\ IF o.r = "0"
           THEN /\ r' = "0"
                /\ ReturnFromTransfer("0")
                /\ UNCHANGED failed_step
           ELSE IF o.r # "-ENOTDIR"
           THEN TransferFails(o.r)
           ELSE /\ r' = "0"
                /\ TransferGoes("from_open_target")
    /\ UNCHANGED << fdvars, attrs >>
    /\ TransferFrame

(* r = copy_directory_fd(source_fd, arg_target, ...); if (r >= 0) break;  *)
(* if (r != -ENOTDIR) return ...; r = fd_verify_regular(source_fd);       *)
(* if (r < 0) return ...;   The host has arg_target or has it not.        *)
From_copy_directory ==
    /\ pc = "from_copy_directory"
    /\ \E to \in {"absent", "file", "dir"} :
       \E o \in copy_directory_fd(source_fd, to) :
        /\ host_target' = to
        /\ dircopy' = o.r
        /\ created' = IF o.made THEN created \cup {<< "host", arg_target.comps >>} ELSE created
        /\ written' = IF o.wrote THEN written \cup {<< "host", arg_target.comps >>} ELSE written
        /\ IF o.r = "0"
           THEN /\ r' = "0"
                /\ ReturnFromTransfer("0")
                /\ UNCHANGED failed_step
           ELSE IF o.r # "-ENOTDIR"
           THEN TransferFails(o.r)
           ELSE IF IsNeg(fd_verify_regular(source_fd))
           THEN TransferFails(fd_verify_regular(source_fd))
           ELSE /\ r' = "0"
                /\ TransferGoes("from_open_target")
    /\ UNCHANGED << fdvars, attrs >>
    /\ TransferFrame

(* target_fd = open(arg_target, O_WRONLY|O_CREAT|O_EXCL|O_NOFOLLOW, 0600) *)
(* on the host: -EEXIST whatever it is that exists                        *)
From_open_target ==
    /\ pc = "from_open_target"
    /\ IF host_target = "absent"
       THEN /\ target_fd' = Fd(arg_target.comps, FALSE, "file")
            /\ created' = created \cup {Dest(target_fd')}
            /\ r' = r
            /\ TransferGoes("from_copy_bytes")
       ELSE /\ TransferFails("-EEXIST")
            /\ UNCHANGED << target_fd, created >>
    /\ UNCHANGED << source_fd, dfd, host_target, dircopy, written, attrs >>
    /\ TransferFrame

(* copy_bytes(source_fd, target_fd, ...); (void) copy_xattr(...);         *)
(* (void) copy_access(...); (void) copy_times(...); break;                *)
From_copy_bytes ==
    /\ pc = "from_copy_bytes"
    /\ StreamTo(source_fd.kind, Dest(target_fd), PropagatedAttributes)

(* dn = dirname_malloc(arg_target); r = chase_symlinks(dn, mounted_dir, CHASE_PREFIX_ROOT, NULL, &dfd) *)
To_chase ==
    /\ pc = "to_chase"
    /\ \/ /\ TransferFails("-ENOMEM")
          /\ UNCHANGED fdvars
       \/ LET c == chase_symlinks(MountRoot, << >>, dirname_malloc(arg_target).comps, MaxHops) IN
          IF IsNeg(c.err)
          THEN /\ TransferFails(c.err)
               /\ UNCHANGED fdvars
          ELSE /\ dfd' = Fd(c.loc, TRUE, NodeAt(c.loc).kind)
               /\ r' = "0"
               /\ TransferGoes(IF arg_source = DASH THEN "to_stdin_open" ELSE "to_open_source")
               /\ UNCHANGED << source_fd, target_fd >>
    /\ UNCHANGED xfervars
    /\ TransferFrame

(* variant: the destination is opened with O_CREAT but without O_EXCL *)
OpenTarget_not_excl(next) ==
    /\ LET o == openat(dfd.loc, basename(arg_target), {"O_WRONLY", "O_CREAT"}) IN
       IF IsNeg(o.err)
       THEN /\ TransferFails(o.err)
            /\ UNCHANGED << target_fd, created >>
       ELSE /\ target_fd' = Fd(o.loc, TRUE, o.kind)
            /\ created' = IF NodeAt(o.loc).kind = "absent"
                          THEN created \cup {Dest(target_fd')} ELSE created
            /\ r' = r
            /\ TransferGoes(next)
    /\ UNCHANGED << source_fd, dfd, host_target, dircopy, written, attrs >>
    /\ TransferFrame

(* target_fd = openat(dfd, basename(arg_target), O_WRONLY|O_CREAT|O_CLOEXEC|O_NOCTTY|O_EXCL, mode) *)
OpenTargetExcl(next) ==
    /\ LET o == openat(dfd.loc, basename(arg_target), {"O_WRONLY", "O_CREAT", "O_EXCL"}) IN
       IF IsNeg(o.err)
       THEN /\ TransferFails(o.err)
            /\ UNCHANGED << target_fd, created >>
       ELSE /\ target_fd' = Fd(o.loc, TRUE, o.kind)
            /\ created' = created \cup {Dest(target_fd')}
            /\ r' = r
            /\ TransferGoes(next)
    /\ UNCHANGED << source_fd, dfd, host_target, dircopy, written, attrs >>
    /\ TransferFrame

To_stdin_open ==
    /\ pc = "to_stdin_open"
    /\ OpenTargetExcl("to_stdin_copy")

(* variant: the attributes are propagated after a copy from stdin as well *)
To_stdin_copy_attributes ==
    /\ pc = "to_stdin_copy"
    /\ StreamTo("stream", Dest(target_fd), PropagatedAttributes)

(* copy_bytes(STDIN_FILENO, target_fd, ...); break; *)
To_stdin_copy ==
    /\ pc = "to_stdin_copy"
    /\ StreamTo("stream", Dest(target_fd), {})

(* source_fd = open(arg_source, O_RDONLY|O_CLOEXEC|O_NOCTTY) on the host; *)
(* on failure log_error_errno(source_fd, ...) returns -1                  *)
To_open_source ==
    /\ pc = "to_open_source"
    /\ \E kind \in {"absent", "file", "dir", "dev"} :
        IF kind = "absent"
        THEN /\ TransferFails("-EPERM")
             /\ UNCHANGED source_fd
        ELSE /\ source_fd' = Fd(arg_source.comps, FALSE, kind)
             /\ r' = r
             /\ TransferGoes("to_verify")
    /\ UNCHANGED << target_fd, dfd, xfervars >>
    /\ TransferFrame

(* r = fd_verify_regular(source_fd); if (r < 0) { if (r != -EISDIR) return ...; *)
To_verify ==
    /\ pc = "to_verify"
    /\ LET v == fd_verify_regular(source_fd) IN
       IF v = "0" THEN /\ r' = v
                       /\ TransferGoes("to_open_target")
       ELSE IF v = "-EISDIR" THEN /\ r' = v
                                  /\ TransferGoes("to_dir_open")
       ELSE TransferFails(v)
    /\ UNCHANGED << fdvars, xfervars >>
    /\ TransferFrame

(* variant: a destination that does not exist is an error like any other *)
To_dir_open_enoent_fatal ==
    /\ pc = "to_dir_open"
    /\ LET o == openat(dfd.loc, basename(arg_target), {"O_RDONLY", "O_DIRECTORY"}) IN
       IF IsNeg(o.err)
       THEN /\ TransferFails(o.err)
            /\ UNCHANGED target_fd
       ELSE /\ target_fd' = Fd(o.loc, TRUE, o.kind)
            /\ r' = r
            /\ TransferGoes("to_dir_copy")
    /\ UNCHANGED << source_fd, dfd, xfervars >>
    /\ TransferFrame

(* target_fd = openat(dfd, basename(arg_target), O_RDONLY|O_DIRECTORY|O_CLOEXEC); *)
(* if (target_fd < 0) { if (errno != ENOENT) return ...;                          *)
To_dir_open ==
    /\ pc = "to_dir_open"
    /\ LET o == openat(dfd.loc, basename(arg_target), {"O_RDONLY", "O_DIRECTORY"}) IN
       IF IsNeg(o.err) /\ o.err # "-ENOENT"
       THEN /\ TransferFails(o.err)
            /\ UNCHANGED target_fd
       ELSE /\ target_fd' = IF IsNeg(o.err) THEN target_fd ELSE Fd(o.loc, TRUE, o.kind)
            /\ r' = r
            /\ TransferGoes("to_dir_copy")
    /\ UNCHANGED << source_fd, dfd, xfervars >>
    /\ TransferFrame

(* r = copy_tree_at(source_fd, ".", dfd, basename(arg_target), ...) when  *)
(* the target is absent, else copy_tree_at(source_fd, ".", target_fd,     *)
(* ".", ...); if (r < 0) return ...; break;                               *)
To_dir_copy ==
    /\ pc = "to_dir_copy"
    /\ LET to == IF target_fd.kind = "none"
                 THEN Dest(Fd(dfd.loc \o << basename(arg_target) >>, dfd.image, "dir"))
                 ELSE Dest(target_fd)
           entry == IF target_fd.kind # "none" THEN "dir"
                    ELSE IF basename(arg_target) = "" THEN "noname"
                    ELSE NodeAt(dfd.loc \o << basename(arg_target) >>).kind IN
       \E o \in copy_tree_at(entry) :
        /\ created' = IF o.made THEN created \cup {to} ELSE created
        /\ written' = IF o.wrote THEN written \cup {to} ELSE written
        /\ IF IsNeg(o.r)
           THEN TransferFails(o.r)
           ELSE /\ r' = o.r
                /\ ReturnFromTransfer("0")
                /\ UNCHANGED failed_step
    /\ UNCHANGED << fdvars, host_target, dircopy, attrs >>
    /\ TransferFrame

To_open_target ==
    /\ pc = "to_open_target"
    /\ OpenTargetExcl("to_copy_bytes")

(* copy_bytes(source_fd, target_fd, ...); (void) copy_xattr(...);         *)
(* (void) copy_access(...); (void) copy_times(...); break;                *)
To_copy_bytes ==
    /\ pc = "to_copy_bytes"
    /\ StreamTo(source_fd.kind, Dest(target_fd), PropagatedAttributes)

-----------------------------------------------------------------------------
(* The _cleanup_ handlers, in the order the compiler runs them. *)

(* what loop_device_unref() / decrypted_image_unref() do to the resource: *)
(* a relinquished one is left alone                                       *)
unref(state) == IF state = "live" THEN "torn" ELSE state

Teardown(ls, res) == [ls EXCEPT ![res] = "torn"]

(* variant: the handles are not closed when their block is left *)
Cleanup_fds_left_open ==
    /\ pc = "cl_fds"
    /\ pc' = "cl_created_dir"
    /\ UNCHANGED << parsevars, r, ret, argvars, lease, d, di, scopevars, open_mode, image_l,
                    fdvars, xfervars, histvars >>

(* _cleanup_close_ source_fd, target_fd, dfd *)
Cleanup_fds ==
    /\ pc = "cl_fds"
    /\ source_fd' = [source_fd EXCEPT !.open = FALSE]
    /\ target_fd' = [target_fd EXCEPT !.open = FALSE]
    /\ dfd' = [dfd EXCEPT !.open = FALSE]
    /\ pc' = "cl_created_dir"
    /\ UNCHANGED << parsevars, r, ret, argvars, lease, d, di, scopevars, open_mode, image_l,
                    xfervars, histvars >>

(* _cleanup_free_ temp; _cleanup_(rmdir_and_freep) created_dir *)
Cleanup_created_dir ==
    /\ pc = "cl_created_dir"
    /\ temp' = "NULL"
    /\ created_dir' = "NULL"
    /\ IF created_dir # "NULL"
       THEN /\ lease' = Teardown(lease, "tmpdir")
            /\ torn' = Append(torn, "tmpdir")
       ELSE UNCHANGED << lease, torn >>
    /\ pc' = "cl_mounted_dir"
    /\ UNCHANGED << parsevars, r, ret, argvars, d, di, mounted_dir, open_mode, image_l,
                    fdvars, xfervars, acquired, failed_step, short_hash_rejected >>

(* _cleanup_(umount_and_rmdir_and_freep) mounted_dir *)
Cleanup_mounted_dir ==
    /\ pc = "cl_mounted_dir"
    /\ mounted_dir' = "NULL"
    /\ IF mounted_dir # "NULL"
       THEN /\ lease' = Teardown(Teardown(lease, "mount"), "tmpdir")
            /\ torn' = torn \o << "mount", "tmpdir" >>
       ELSE UNCHANGED << lease, torn >>
    /\ pc' = "cl_di"
    /\ UNCHANGED << parsevars, r, ret, argvars, d, di, temp, created_dir, open_mode, image_l,
                    fdvars, xfervars, acquired, failed_step, short_hash_rejected >>

(* variant: di is declared without its _cleanup_ handler *)
Cleanup_di_missing ==
    /\ pc = "cl_di"
    /\ pc' = "cl_d"
    /\ UNCHANGED << parsevars, r, ret, argvars, lease, d, di, scopevars, open_mode, image_l,
                    fdvars, xfervars, histvars >>

(* _cleanup_(dissected_image_unrefp) m; _cleanup_(decrypted_image_unrefp) di *)
Cleanup_di ==
    /\ pc = "cl_di"
    /\ IF di # "NULL"
       THEN /\ lease' = [lease EXCEPT !["decrypt"] = unref(@)]
            /\ torn' = IF lease'["decrypt"] # lease["decrypt"]
                       THEN Append(torn, "decrypt") ELSE torn
       ELSE UNCHANGED << lease, torn >>
    /\ di' = "NULL"
    /\ pc' = "cl_d"
    /\ UNCHANGED << parsevars, r, ret, argvars, d, scopevars, open_mode, image_l,
                    fdvars, xfervars, acquired, failed_step, short_hash_rejected >>

(* variant: the handler detaches the loop device whatever its state *)
Cleanup_d_detach_always ==
    /\ pc = "cl_d"
    /\ IF d # "NULL"
       THEN /\ lease' = Teardown(lease, "loop")
            /\ torn' = Append(torn, "loop")
       ELSE UNCHANGED << lease, torn >>
    /\ d' = "NULL"
    /\ pc' = "done"
    /\ UNCHANGED << parsevars, r, ret, argvars, di, scopevars, open_mode, image_l,
                    fdvars, xfervars, acquired, failed_step, short_hash_rejected >>

(* _cleanup_(loop_device_unrefp) d *)
Cleanup_d ==
    /\ pc = "cl_d"
    /\ IF d # "NULL"
       THEN /\ lease' = [lease EXCEPT !["loop"] = unref(@)]
            /\ torn' = IF lease'["loop"] # lease["loop"]
                       THEN Append(torn, "loop") ELSE torn
       ELSE UNCHANGED << lease, torn >>
    /\ d' = "NULL"
    /\ pc' = "done"
    /\ UNCHANGED << parsevars, r, ret, argvars, di, scopevars, open_mode, image_l,
                    fdvars, xfervars, acquired, failed_step, short_hash_rejected >>

-----------------------------------------------------------------------------

Next ==
    \/ ParseOption \/ Positional \/ Run_parse_argv
    \/ Run_loop_device_make \/ Run_verity_metadata_load \/ Run_dissect_image
    \/ Action_dissect
    \/ Mount_decrypt \/ Mount_mount \/ Mount_relinquish_di \/ Mount_relinquish_d
    \/ Copy_decrypt \/ Copy_detach_mount_namespace \/ Copy_tempfn_random_child
    \/ Copy_mkdir_p \/ Copy_mount \/ Copy_relinquish_di \/ Copy_relinquish_d
    \/ From_open_source \/ From_stdout \/ From_copy_directory \/ From_open_target
    \/ From_copy_bytes
    \/ To_chase \/ To_stdin_open \/ To_stdin_copy \/ To_open_source \/ To_verify
    \/ To_dir_open \/ To_dir_copy \/ To_open_target \/ To_copy_bytes
    \/ Cleanup_fds \/ Cleanup_created_dir \/ Cleanup_mounted_dir \/ Cleanup_di \/ Cleanup_d

Spec == Init /\ [][Next]_vars

-----------------------------------------------------------------------------
(* Properties *)

RECURSIVE Reverse(_)
Reverse(q) == IF q = << >> THEN << >> ELSE Append(Reverse(Tail(q)), Head(q))

NoDuplicates(q) == \A i, j \in 1 .. Len(q) : q[i] = q[j] => i = j

Index(q, x) == CHOOSE i \in 1 .. Len(q) : q[i] = x
InSeq(q, x) == \E i \in 1 .. Len(q) : q[i] = x

Leases == {"loop", "decrypt", "mount"}
LeaseStates == {"none", "live", "relinquished", "torn"}
AcquisitionSteps == {"loop", "verity", "dissect", "decrypt", "detach", "tempfn", "mkdir", "mount"}
CopyActions == {"ACTION_COPY_FROM", "ACTION_COPY_TO"}
Handles == {source_fd, target_fd, dfd}

(* C1: when an acquisition step of run() fails, run() returns the error    *)
(* only after every resource acquired before it has been torn down exactly *)
(* once, in reverse order of acquisition; none is left live or             *)
(* relinquished.                                                           *)
C1_FailedAcquisitionRollsBack ==
    (pc = "done" /\ failed_step \in AcquisitionSteps) =>
        /\ IsNeg(ret)
        /\ torn = Reverse(acquired)
        /\ \A x \in Resources : lease[x] \in {"none", "torn"}

C1_Witness ==
    /\ pc = "done"
    /\ failed_step = "mount"
    /\ acquired = << "loop", "decrypt", "tmpdir" >>
    /\ torn = << "tmpdir", "decrypt", "loop" >>

(* C2: every handle extract and inject open into the image (source_fd, dfd, *)
(* target_fd) refers to a location beneath the mount root.                  *)
C2_HandlesBeneathMountRoot ==
    \A f \in Handles : (f.open /\ f.image) => IsPrefix(MountRoot, f.loc)

(* C3: the teardown of a lease never begins while a lease acquired after it *)
(* is still live.                                                           *)
C3_StrictLifoTeardown ==
    [][\A x \in Leases :
          (lease[x] = "live" /\ lease'[x] = "torn") =>
              \A y \in Leases :
                  (InSeq(acquired, y) /\ Index(acquired, y) > Index(acquired, x))
                      => lease[y] # "live"]_vars

(* C4: whenever run() returns an error, every resource that was acquired *)
(* ends torn down; none ends relinquished or live.                       *)
C4_ErrorMeansTornDown ==
    (pc = "done" /\ IsNeg(ret)) => \A x \in Resources : lease[x] \in {"none", "torn"}

(* C5: when run() returns from extract or inject, the mount, once it had    *)
(* succeeded, is unmounted and the temporary directory, once created, is    *)
(* removed.                                                                 *)
C5_CopyLeavesNothingMounted ==
    (pc = "done" /\ arg_action \in CopyActions) =>
        /\ lease["mount"] = (IF InSeq(acquired, "mount") THEN "torn" ELSE "none")
        /\ lease["tmpdir"] = (IF InSeq(acquired, "tmpdir") THEN "torn" ELSE "none")

C5_Witness ==
    /\ pc = "done"
    /\ arg_action = "ACTION_COPY_TO"
    /\ failed_step = "transfer"
    /\ lease["mount"] = "torn"
    /\ lease["tmpdir"] = "torn"

(* C6: when run() returns 0 for the mount action (parse_argv() selected it *)
(* and returned 1), the mount is live, the loop device is relinquished,   *)
(* the decryption mapping (if any) is relinquished, and nothing has been  *)
(* torn down.                                                             *)
C6_MountSuccessLeavesLive ==
    (pc = "done" /\ arg_action = "ACTION_MOUNT" /\ parse_r = "1" /\ ret = "0") =>
        /\ lease["mount"] = "live"
        /\ lease["loop"] = "relinquished"
        /\ lease["decrypt"] = (IF InSeq(acquired, "decrypt") THEN "relinquished" ELSE "none")
        /\ torn = << >>

C6_Witness ==
    /\ pc = "done"
    /\ arg_action = "ACTION_MOUNT"
    /\ ret = "0"
    /\ lease["decrypt"] = "relinquished"
    /\ lease["mount"] = "live"

(* C7: when the unmount of the temporary mount begins, and ever after, no *)
(* handle of the transfer is open.                                        *)
C7_HandlesClosedBeforeUnmount ==
    (pc = "cl_mounted_dir" \/ lease["mount"] = "torn") => \A f \in Handles : ~f.open

C7_Witness ==
    /\ pc = "cl_mounted_dir"
    /\ mounted_dir # "NULL"
    /\ lease["mount"] = "live"
    /\ \A f \in Handles : f.kind # "none" /\ ~f.open

(* C8: each lease is in exactly one state; relinquished and torn down are *)
(* terminal, so the handlers at the end of run() leave a relinquished     *)
(* lease alone; nothing is torn down twice.                               *)
C8_LeaseStatesTerminal ==
    /\ [](lease \in [Resources -> LeaseStates] /\ NoDuplicates(torn))
    /\ [][\A x \in Resources :
             lease[x] \in {"relinquished", "torn"} => lease'[x] = lease[x]]_vars

C8_Witness ==
    /\ pc = "done"
    /\ lease["loop"] = "relinquished"
    /\ lease["decrypt"] = "relinquished"
    /\ lease["mount"] = "torn"

(* C9: a root hash that reaches dissection or the decryption handshake is  *)
(* absent or at least 16 bytes long, and a shorter one is rejected before  *)
(* the loop device is acquired.                                            *)
C9_RootHashAtLeast128Bit ==
    /\ (pc \in {"dissect", "m_decrypt", "c_decrypt"} /\ arg_root_hash # "NULL")
            => arg_root_hash_size >= SD_ID128_SIZE
    /\ short_hash_rejected => ~InSeq(acquired, "loop")

(* C10: when parse_argv() does not return a positive value, run() acquires *)
(* nothing and returns that value.                                         *)
C10_ParseFailureAcquiresNothing ==
    (parse_r \notin {"none", "1"}) =>
        /\ acquired = << >>
        /\ \A x \in Resources : lease[x] = "none"
        /\ pc \in {"parsed", "cl_di", "cl_d", "done"}
        /\ pc # "parsed" => ret = parse_r

C10_Witness ==
    /\ pc = "done"
    /\ parse_r = "0"
    /\ ret = "0"
    /\ acquired = << >>

-----------------------------------------------------------------------------
(* The inspect action, the read-only actions, verity resolution *)

InspectSteps == {"getopt", "parsed", "loop_make", "verity_load", "dissect", "a_dissect",
                 "cl_di", "cl_d", "done"}

ReadOnlyActions == {"ACTION_DISSECT", "ACTION_COPY_FROM"}

(* C11: in the inspect action a failure of dissected_image_acquire_metadata() *)
(* is not fatal: run() never returns it.                                     *)
C11_MetadataFailureNotFatal ==
    failed_step = "metadata" => ret \in {"none", "0"}

(* C12: the inspect action never reaches the decryption handshake or the   *)
(* mount, never relinquishes a lease, and when run() returns the loop      *)
(* device it acquired is torn down and nothing else was ever acquired.     *)
C12_InspectLeavesNothingBound ==
    arg_action = "ACTION_DISSECT" =>
        /\ pc \in InspectSteps
        /\ failed_step \notin {"decrypt", "mount", "relinquish"}
        /\ \A x \in Resources \ {"loop"} : lease[x] = "none" /\ ~InSeq(acquired, x)
        /\ lease["loop"] # "relinquished"
        /\ pc = "done" =>
              lease["loop"] = (IF InSeq(acquired, "loop") THEN "torn" ELSE "none")

C12_Witness ==
    /\ pc = "done"
    /\ arg_action = "ACTION_DISSECT"
    /\ ret = "0"
    /\ acquired = << "loop" >>
    /\ lease["loop"] = "torn"

(* C13: for the inspect and extract actions (parse_argv() returned 1),     *)
(* whatever options were given and in whatever order, the read-only flag   *)
(* is in arg_flags from the end of parse_argv() on -- so in the flags      *)
(* handed to dissection and to the mount -- and the loop device is opened  *)
(* O_RDONLY.                                                               *)
C13_ReadOnlyActionsOpenReadOnly ==
    (parse_r = "1" /\ arg_action \in ReadOnlyActions) =>
        /\ "READ_ONLY" \in arg_flags
        /\ open_mode \in {"none", "O_RDONLY"}
        /\ pc \notin {"getopt", "parsed", "loop_make"} => open_mode = "O_RDONLY"

C13_Witness ==
    /\ pc = "c_relinquish_di"
    /\ arg_action = "ACTION_COPY_FROM"
    /\ nopts = MaxOpts
    /\ open_mode = "O_RDONLY"
    /\ lease["mount"] = "live"
    /\ "READ_ONLY" \in arg_flags

(* C14: the step of verity resolution leaves alone every field that was     *)
(* supplied: the root hash and its size when a root hash is set, the data  *)
(* path when one is set, both forms of the signature when either is set;   *)
(* and the step is taken at most once, since it is entered only from the   *)
(* acquisition of the loop device, which is entered only from the end of   *)
(* parse_argv().                                                           *)
C14_VerityResolutionKeepsSupplied ==
    [][/\ pc = "verity_load" =>
            /\ arg_root_hash # "NULL" =>
                    /\ arg_root_hash' = arg_root_hash
                    /\ arg_root_hash_size' = arg_root_hash_size
            /\ arg_verity_data # "NULL" => arg_verity_data' = arg_verity_data
            /\ (arg_root_hash_sig # "NULL" \/ arg_root_hash_sig_path # "NULL") =>
                    /\ arg_root_hash_sig_path' = arg_root_hash_sig_path
                    /\ arg_root_hash_sig' = arg_root_hash_sig
                    /\ arg_root_hash_sig_size' = arg_root_hash_sig_size
            /\ pc' # "verity_load"
       /\ (pc' = "verity_load" /\ pc # "verity_load") => pc = "loop_make"
       /\ (pc' = "loop_make" /\ pc # "loop_make") => pc = "parsed"
       /\ (pc' = "parsed" /\ pc # "parsed") => pc = "getopt"
       /\ pc' = "getopt" => pc = "getopt"]_vars

C14_Witness ==
    /\ pc = "dissect"
    /\ arg_root_hash = "arg"
    /\ arg_verity_data = "meta"
    /\ arg_root_hash_sig # "NULL"
    /\ arg_root_hash_sig_path = "NULL"

-----------------------------------------------------------------------------
(* The transfer *)

(* the entry the inject action is to create, as the image has it *)
InjectDestination ==
    IF basename(arg_target) = ".." THEN Node("dir")
    ELSE NodeAt(dfd.loc \o << basename(arg_target) >>)

(* the inject action has resolved the parent directory and the name is usable *)
InjectResolved ==
    /\ arg_action = "ACTION_COPY_TO"
    /\ dfd.kind = "dir"
    /\ basename(arg_target) # ""

(* a transfer that takes, or would take, the single-file path *)
ExtractsFile ==
    /\ arg_action = "ACTION_COPY_FROM"
    /\ arg_target # DASH
    /\ source_fd.kind = "file"
    /\ host_target # "unknown"

InjectsFile ==
    /\ InjectResolved
    /\ arg_source = DASH \/ source_fd.kind = "file"

Untouched ==
    /\ written = {}
    /\ attrs = {}
    /\ created = {}
    /\ target_fd = NOFD

(* C15: with the stream sentinel no attribute is ever propagated; the      *)
(* extract action writes to stdout only, opens no target and creates       *)
(* nothing; the inject action opens no source, writes only through         *)
(* target_fd, and only into an entry that was absent and that its          *)
(* exclusive open created.                                                 *)
C15_SentinelStreamsBytesOnly ==
    /\ (parse_r = "1" /\ arg_action = "ACTION_COPY_FROM" /\ arg_target = DASH) =>
            /\ attrs = {}
            /\ created = {}
            /\ target_fd = NOFD
            /\ written \subseteq {STDOUT_FILENO}
            /\ dircopy = "none"
    /\ (parse_r = "1" /\ arg_action = "ACTION_COPY_TO" /\ arg_source = DASH) =>
            /\ attrs = {}
            /\ source_fd = NOFD
            /\ written \subseteq created
            /\ \A c \in created : /\ c = Dest(target_fd)
                                  /\ target_fd.kind = "file"
                                  /\ NodeAt(c[2]).kind = "absent"

C15_Witness ==
    /\ pc = "done"
    /\ arg_action = "ACTION_COPY_TO"
    /\ arg_source = DASH
    /\ ret = "0"
    /\ written = {Dest(target_fd)}

(* C16: when a single-file transfer (or the inject from stdin) finds its   *)
(* destination existing, nothing is written, no attribute is propagated,   *)
(* nothing is created, no target is open, and run() returns an error.      *)
C16_ExistingDestinationUntouched ==
    /\ (ExtractsFile /\ host_target # "absent") =>
            /\ Untouched
            /\ pc = "done" => IsNeg(ret)
    /\ (InjectsFile /\ InjectDestination.kind # "absent") =>
            /\ Untouched
            /\ pc = "done" => IsNeg(ret)

C16_Witness ==
    /\ pc = "done"
    /\ InjectsFile
    /\ source_fd.kind = "file"
    /\ InjectDestination.kind = "file"
    /\ ret = "-EEXIST"
    /\ Untouched

(* C17: when the source is a regular file and the destination exists, the  *)
(* destination is left alone and run() returns an error; the error is      *)
(* -EEXIST when the destination is a regular file and another one when it  *)
(* is a directory.                                                         *)
C17_DirectoryDestinationDistinctError ==
    /\ (pc = "done" /\ ExtractsFile /\ host_target # "absent") =>
            /\ Untouched
            /\ IsNeg(ret)
            /\ (ret = "-EEXIST") <=> (host_target = "file")
    /\ (pc = "done" /\ InjectsFile /\ source_fd.kind = "file"
            /\ InjectDestination.kind \in {"file", "dir"}) =>
            /\ Untouched
            /\ IsNeg(ret)
            /\ (ret = "-EEXIST") <=> (InjectDestination.kind = "file")

(* C18: while the source is neither a regular file nor a directory,        *)
(* nothing is written, nothing is created, no target is open, and run()    *)
(* returns an error.                                                       *)
C18_UnsupportedSourceRejectedFirst ==
    source_fd.kind = "dev" =>
        /\ Untouched
        /\ pc = "done" => IsNeg(ret)

(* C19: when the decryption handshake has failed, run() returns the very   *)
(* code the handshake returned (one of the two, kept apart), the mount is  *)
(* never reached, no lease is ever relinquished, and at the end the loop   *)
(* device is torn down.                                                    *)
C19_HandshakeErrorReturnedUnchanged ==
    failed_step = "decrypt" =>
        /\ r \in {"-EKEYREJECTED", "-ECANCELED"}
        /\ ret = r
        /\ pc \in {"cl_created_dir", "cl_mounted_dir", "cl_di", "cl_d", "done"}
        /\ ~InSeq(acquired, "mount") /\ ~InSeq(acquired, "tmpdir")
        /\ \A x \in Resources : lease[x] # "relinquished"
        /\ pc = "done" => lease["loop"] = "torn"

C19_Witness ==
    /\ pc = "done"
    /\ failed_step = "decrypt"
    /\ ret = "-ECANCELED"
    /\ lease["loop"] = "torn"

(* C20: in extract to a named target the exclusive open is reached only    *)
(* after copy_directory_fd() returned -ENOTDIR for a source that is a      *)
(* regular file; after any other error of copy_directory_fd() run()        *)
(* returns that error, and for a source that is a directory run() returns  *)
(* an error whenever the directory copy failed; in both cases no target    *)
(* is opened and no file is created.                                       *)
C20_DirectoryCopyFirst ==
    (parse_r = "1" /\ arg_action = "ACTION_COPY_FROM" /\ arg_target # DASH) =>
        /\ (pc \in {"from_open_target", "from_copy_bytes"} \/ target_fd # NOFD) =>
                /\ dircopy = "-ENOTDIR"
                /\ source_fd.kind = "file"
        /\ dircopy \notin {"none", "0", "-ENOTDIR"} =>
                /\ target_fd = NOFD
                /\ ret = dircopy
        /\ (source_fd.kind = "dir" /\ dircopy # "none") =>
                /\ target_fd = NOFD
                /\ attrs = {}
                /\ ret = (IF dircopy = "-ENOTDIR" THEN "-EISDIR" ELSE dircopy)

C20_Witness ==
    /\ pc = "from_copy_bytes"
    /\ dircopy = "-ENOTDIR"
    /\ source_fd.kind = "file"
    /\ host_target = "absent"
    /\ target_fd.open

-----------------------------------------------------------------------------
(* The inject of a directory, the attributes *)

(* what the open of the destination directory (line 579) gives *)
InjectDirOpen == openat(dfd.loc, basename(arg_target), {"O_RDONLY", "O_DIRECTORY"})

InjectsTree ==
    /\ InjectResolved
    /\ source_fd.kind = "dir"

(* C21: in inject with a directory source: when the resolved parent        *)
(* directory has no entry of the destination name, the tree copy runs and, *)
(* succeeding, has created and filled that entry; when the entry is a      *)
(* directory, the tree copy runs and merges into the directory opened,     *)
(* creating nothing; when the open of the destination fails with anything  *)
(* but ENOENT, run() returns that error and nothing is created or written. *)
C21_TreeCopiedIntoDestination ==
    InjectsTree =>
        /\ InjectDestination.kind = "absent" =>
                /\ ret \in {"none", "0", "-EIO"}
                /\ written \subseteq created
                /\ created \subseteq {<< "image", dfd.loc \o << basename(arg_target) >> >>}
                /\ ret = "0" => written # {}
        /\ InjectDestination.kind = "dir" =>
                /\ ret \in {"none", "0", "-EIO"}
                /\ created = {}
                /\ written \subseteq {<< "image", InjectDirOpen.loc >>}
                /\ ret = "0" => written # {}
        /\ (IsNeg(InjectDirOpen.err) /\ InjectDirOpen.err # "-ENOENT") =>
                /\ written = {}
                /\ created = {}
                /\ target_fd = NOFD
                /\ pc = "done" => ret = InjectDirOpen.err

C21_Witness ==
    /\ pc = "done"
    /\ InjectsTree
    /\ InjectDestination.kind = "absent"
    /\ ret = "0"
    /\ created = {<< "image", MountRoot \o << "d", "n" >> >>}
    /\ written = created

(* a single-file transfer whose byte copy has been run: r holds what      *)
(* copy_bytes() returned                                                  *)
SingleFileCopied ==
    /\ arg_action \in CopyActions
    /\ source_fd.kind = "file"
    /\ target_fd.kind # "none"
    /\ ret # "none"

(* C22: attributes are propagated only in a single-file transfer whose     *)
(* byte copy succeeded, and only the three of them (never ownership);      *)
(* run() returns exactly what the byte copy returned, whichever of the     *)
(* attribute copies failed, so a failed byte copy is returned as an error  *)
(* with no attribute propagated and a successful one gives 0.              *)
C22_AttributesBestEffort ==
    /\ attrs \subseteq PropagatedAttributes
    /\ attrs # {} =>
            /\ SingleFileCopied
            /\ r = "0"
            /\ Dest(target_fd) \in written
    /\ SingleFileCopied =>
            /\ ret = r
            /\ r = "0" \/ IsNeg(r)
            /\ IsNeg(r) => attrs = {}

C22_Witness ==
    /\ pc = "done"
    /\ SingleFileCopied
    /\ arg_action = "ACTION_COPY_FROM"
    /\ ret = "0"
    /\ attrs = {"access"}

-----------------------------------------------------------------------------
(* Read-write actions, the order of relinquishing, the signature forms *)

ReadWriteActions == {"ACTION_MOUNT", "ACTION_COPY_TO"}

(* C23: for the mount and inject actions (parse_argv() returned 1) the     *)
(* loop device is opened O_RDONLY exactly when -r was given, whatever      *)
(* other options came before or after.                                     *)
C23_ReadOnlyOnlyByOption ==
    (parse_r = "1" /\ arg_action \in ReadWriteActions /\ open_mode # "none") =>
        ((open_mode = "O_RDONLY") <=> given.read_only)

(* C24: a relinquished loop device implies that the mount had succeeded    *)
(* and that the decryption mapping, if one was set up, is relinquished; a  *)
(* relinquished decryption mapping implies that the mount had succeeded;   *)
(* nothing else is ever relinquished.                                      *)
C24_RelinquishOnlyAfterMount ==
    /\ lease["loop"] = "relinquished" =>
            /\ InSeq(acquired, "mount")
            /\ InSeq(acquired, "decrypt") => lease["decrypt"] = "relinquished"
    /\ lease["decrypt"] = "relinquished" => InSeq(acquired, "mount")
    /\ lease["mount"] # "relinquished"
    /\ lease["tmpdir"] # "relinquished"

C24_Witness ==
    /\ arg_action = "ACTION_COPY_TO"
    /\ lease["loop"] = "relinquished"
    /\ lease["decrypt"] = "relinquished"
    /\ lease["mount"] = "live"

(* C25: the inline signature and the signature path are never both set,    *)
(* the recorded size is non-zero only with the inline signature, and the   *)
(* last --root-hash-sig option decides which form is set; verity           *)
(* resolution adds a path only when no option gave either form.            *)
C25_OneSignatureForm ==
    /\ ~(arg_root_hash_sig # "NULL" /\ arg_root_hash_sig_path # "NULL")
    /\ arg_root_hash_sig_size # 0 => arg_root_hash_sig # "NULL"
    /\ IF given.sigs = << >>
       THEN /\ arg_root_hash_sig = "NULL"
            /\ arg_root_hash_sig_path \in {"NULL", "meta"}
       ELSE IF Last(given.sigs) = "base64"
       THEN /\ arg_root_hash_sig = "arg"
            /\ arg_root_hash_sig_path = "NULL"
       ELSE /\ arg_root_hash_sig = "NULL"
            /\ arg_root_hash_sig_size = 0
            /\ arg_root_hash_sig_path = "arg"

C25_Witness ==
    /\ pc = "dissect"
    /\ given.sigs = << "base64", "path" >>
    /\ arg_root_hash_sig = "NULL"
    /\ arg_root_hash_sig_path = "arg"

=============================================================================
